---------------------------- MODULE Spec2Model ----------------------------
(***************************************************************************)
(* World Bank Data Explorer (src/app.py): the CSV loader load_generic_data *)
(* and the Streamlit script main().                                        *)
(*                                                                         *)
(* A DataFrame is a sequence of rows.  A row of a long table is a record   *)
(*   name  = "Country Name"     code  = "Country Code"                     *)
(*   iname = "Indicator Name"   icode = "Indicator Code"                   *)
(*   year  = "Year"             value = the column named value_name        *)
(* Text (a CSV header, a CSV cell) is a sequence of one-character strings, *)
(* so that parsing it is a computation.                                    *)
(***************************************************************************)
EXTENDS Integers, Sequences, FiniteSets, TLC

\* Number of year columns of an input CSV (the first one is 1990).
NumYears == 1

\* The missing marker (float NaN) of read_csv and of errors="coerce".
\* Years and values of the inputs are positive, so -1 is free.
NaN == -1

Range(s) == {s[i] : i \in 1..Len(s)}

---------------------------------------------------------------------------
(* Text                                                                    *)

Digits == <<"0", "1", "2", "3", "4", "5", "6", "7", "8", "9">>

IsDigit(ch) == \E d \in 1..10 : Digits[d] = ch

DigitVal(ch) == (CHOOSE d \in 1..10 : Digits[d] = ch) - 1

\* The decimal text of a natural number, as the CSV file holds it.
RECURSIVE FormatNat(_)
FormatNat(n) ==
    IF n < 10 THEN <<Digits[n + 1]>>
    ELSE Append(FormatNat(n \div 10), Digits[(n % 10) + 1])

RECURSIVE DecimalValue(_, _)
DecimalValue(txt, acc) ==
    IF txt = <<>> THEN acc
    ELSE DecimalValue(Tail(txt), 10 * acc + DigitVal(Head(txt)))

\* pd.to_numeric(..., errors="coerce") on one text: its number, or NaN when
\* the text is no number.  The inputs hold digit strings and texts with a
\* letter; signs, decimal points and exponents are not among them.
to_numeric(txt) ==
    IF txt # <<>> /\ \A i \in 1..Len(txt) : IsDigit(txt[i])
    THEN DecimalValue(txt, 0)
    ELSE NaN

---------------------------------------------------------------------------
(* Input CSV files, as pd.read_csv(csv_path, skiprows=4) sees them         *)

\* The countries of the default selection, in the export's (alphabetical)
\* row order.
Countries ==
    << [name |-> "Sweden", code |-> "SWE"],
       [name |-> "Switzerland", code |-> "CHE"] >>

CountryNames == [i \in 1..Len(Countries) |-> Countries[i].name]

YearHeaders == [i \in 1..NumYears |-> FormatNat(1989 + i)]

\* The header line of a World Bank export ends with a comma: read_csv names
\* the resulting last column "Unnamed: <position>".
UnnamedHeader ==
    <<"U", "n", "n", "a", "m", "e", "d", ":", " ">> \o FormatNat(4 + NumYears)

ValueColumns == YearHeaders \o <<UnnamedHeader>>

NumCols == Len(ValueColumns)

CellPositions == (1..Len(Countries)) \X (1..NumCols)

\* The indicator codes of the three exports (they are in the file names).
IndicatorCodes == <<"SP.DYN.CBRT.IN", "NY.ADJ.NNTY.PC.CD", "SL.TLF.CACT.FE.ZS">>

\* The number a filled cell holds: every cell of every file has its own.
CellValue(k, r, c) == 100 * k + 10 * r + c

\* The export of indicator k whose filled cells are `filled`; every other
\* cell is empty.  The indicator's name and code are on every row.
Csv(k, filled) ==
    [columns |-> ValueColumns,
     rows |-> [r \in 1..Len(Countries) |->
                 [name |-> Countries[r].name,
                  code |-> Countries[r].code,
                  iname |-> IndicatorCodes[k],
                  icode |-> IndicatorCodes[k],
                  cells |-> [c \in 1..NumCols |->
                               IF <<r, c>> \in filled
                               THEN FormatNat(CellValue(k, r, c))
                               ELSE <<>>]]]]

CsvSet(k) == {Csv(k, filled) : filled \in SUBSET CellPositions}

---------------------------------------------------------------------------
(* load_generic_data                                                       *)

\* read_csv's parse of one cell: an empty cell is NaN.
ParseCell(txt) == IF txt = <<>> THEN NaN ELSE to_numeric(txt)

\* df.melt(id_vars=[the four metadata columns], var_name="Year",
\* value_name=value_name): the value columns one after the other, each with
\* all rows in file order; Year is the column's header text.
MeltColumn(csv, c) ==
    [r \in 1..Len(csv.rows) |->
        [name |-> csv.rows[r].name,
         code |-> csv.rows[r].code,
         iname |-> csv.rows[r].iname,
         icode |-> csv.rows[r].icode,
         year |-> csv.columns[c],
         value |-> ParseCell(csv.rows[r].cells[c])]]

RECURSIVE MeltFrom(_, _)
MeltFrom(csv, c) ==
    IF c > Len(csv.columns) THEN <<>>
    ELSE MeltColumn(csv, c) \o MeltFrom(csv, c + 1)

melt(csv) == MeltFrom(csv, 1)

\* .dropna(subset=[value_name])
dropna(df) == SelectSeq(df, LAMBDA row : row.value # NaN)

\* df_long["Year"] = pd.to_numeric(df_long["Year"], errors="coerce")
YearToNumeric(df) ==
    [i \in 1..Len(df) |-> [df[i] EXCEPT !.year = to_numeric(@)]]

\* The order of sort_values("Year"): ascending, NaN last.
YearBefore(a, b) == a # NaN /\ (b = NaN \/ a < b)

\* row goes behind every row it does not precede (ties keep their order, as
\* numpy's sort does on tables this short).
RECURSIVE InsertByYear(_, _)
InsertByYear(sorted, row) ==
    IF sorted = <<>> THEN <<row>>
    ELSE IF YearBefore(row.year, Head(sorted).year)
         THEN <<row>> \o sorted
         ELSE <<Head(sorted)>> \o InsertByYear(Tail(sorted), row)

RECURSIVE SortFrom(_, _, _)
SortFrom(df, i, acc) ==
    IF i > Len(df) THEN acc
    ELSE SortFrom(df, i + 1, InsertByYear(acc, df[i]))

\* df_long.sort_values("Year", inplace=True)
sort_values(df) == SortFrom(df, 1, <<>>)

\* The body of load_generic_data (what runs on a cache miss).
ParseCsv(csv) == sort_values(YearToNumeric(dropna(melt(csv))))

---------------------------------------------------------------------------
(* main: the script body                                                   *)

\* File paths and corresponding value names (the dict `files`), in dict
\* order: list(filtered.keys()) is this order.
col_keys ==
    <<"Birth Rate", "Real GDP (USD)", "Female Labor Force Participation (%)">>

files ==
    ("Birth Rate" :>
        "./csv-data/birth_rate_world_bank/API_SP.DYN.CBRT.IN_DS2_en_csv_v2_13718.csv")
    @@ ("Real GDP (USD)" :>
        "./csv-data/real_gdp_usd_world_bank/API_NY.ADJ.NNTY.PC.CD_DS2_en_csv_v2_14320.csv")
    @@ ("Female Labor Force Participation (%)" :>
        "./csv-data/female_labor_force_participation_world_bank/API_SL.TLF.CACT.FE.ZS_DS2_en_csv_v2_13361.csv")

Names == Range(col_keys)

Paths == {files[n] : n \in Names}

\* default=["Sweden", "Switzerland"] of the multiselect.
DefaultCountries == <<"Sweden", "Switzerland">>

\* The widget values of a fresh session: the multiselect's default and
\* index=0 / index=1 of the four selectboxes.
DefaultSelectboxes ==
    [ts_left |-> col_keys[1], ts_right |-> col_keys[2],
     corr_x |-> col_keys[1], corr_y |-> col_keys[2]]

SelectboxKeys == {"ts_left", "ts_right", "corr_x", "corr_y"}

\* set().union(*[set(df["Country Name"].unique()) for df in datasets.values()])
AvailableCountries(datasets) ==
    UNION {{datasets[n][i].name : i \in 1..Len(datasets[n])} : n \in Names}

\* The filter on the wrong column: "Country Code" instead of "Country Name".
FilterByCode(df, selected_countries) ==
    SelectSeq(df, LAMBDA row : row.code \in Range(selected_countries))

\* df[df["Country Name"].isin(selected_countries)]
Filter(df, selected_countries) ==
    SelectSeq(df, LAMBDA row : row.name \in Range(selected_countries))

\* filtered[d][filtered[d]["Country Name"] == country]
CountryData(df, country) == SelectSeq(df, LAMBDA row : row.name = country)

\* One ax.plot(country_data["Year"], country_data[d], label=f"{country} {d}"):
\* a line, also when country_data is empty.
PlotLine(axis, df, country, d) ==
    LET country_data == CountryData(df, country)
    IN  [axis |-> axis, country |-> country, dataset |-> d,
         points |-> [i \in 1..Len(country_data) |->
                       <<country_data[i].year, country_data[i].value>>]]

TimeSeriesHead ==
    << <<"subheader", "Time Series Chart">>,
       <<"selectbox", "ts_left">>, <<"selectbox", "ts_right">> >>

\* The chart with the second loop (ax2) left out.
TimeSeriesChartOneAxis(filtered, selected_countries, left_dataset, right_dataset) ==
    [elems |-> Append(TimeSeriesHead, <<"pyplot", "fig">>),
     calls |-> {"plt.subplots:fig", "ax1.plot", "ax1.legend"},
     lines |->
        [i \in 1..Len(selected_countries) |->
           PlotLine("ax1", filtered[left_dataset],
                    selected_countries[i], left_dataset)]]

\* The else branch of the time-series section: one line per selected country
\* on ax1 (left_dataset), then one per selected country on ax2 = ax1.twinx()
\* (right_dataset), then st.pyplot(fig).
TimeSeriesChart(filtered, selected_countries, left_dataset, right_dataset) ==
    [elems |-> Append(TimeSeriesHead, <<"pyplot", "fig">>),
     calls |-> {"plt.subplots:fig", "ax1.plot", "ax1.twinx", "ax2.plot",
                "ax1.legend"},
     lines |->
        [i \in 1..Len(selected_countries) |->
           PlotLine("ax1", filtered[left_dataset],
                    selected_countries[i], left_dataset)]
        \o
        [i \in 1..Len(selected_countries) |->
           PlotLine("ax2", filtered[right_dataset],
                    selected_countries[i], right_dataset)]]

\* The section without its left_dataset == right_dataset guard.
TimeSeriesUnguarded(filtered, selected_countries, left_dataset, right_dataset) ==
    TimeSeriesChart(filtered, selected_countries, left_dataset, right_dataset)

\* The time-series section: its Streamlit elements, the library calls it
\* makes and the lines it plots.
TimeSeries(filtered, selected_countries, left_dataset, right_dataset) ==
    IF left_dataset = right_dataset
    THEN [elems |-> Append(TimeSeriesHead,
             <<"warning",
               "Please select two distinct datasets for the time series chart.">>),
          calls |-> {},
          lines |-> <<>>]
    ELSE TimeSeriesChart(filtered, selected_countries,
                         left_dataset, right_dataset)

Min(S) == CHOOSE m \in S : \A v \in S : m <= v
Max(S) == CHOOSE m \in S : \A v \in S : m >= v

\* df.groupby("Country Name")[name].describe(): one row per country that has
\* rows in df, in sorted order, none for an empty df.  Of the statistics,
\* count, min and max are kept (mean, std and the quartiles are reals).
describe(df) ==
    LET present == SelectSeq(CountryNames,
                             LAMBDA c : CountryData(df, c) # <<>>)
    IN  [i \in 1..Len(present) |->
           LET vals == {CountryData(df, present[i])[k].value :
                           k \in 1..Len(CountryData(df, present[i]))}
           IN  [country |-> present[i],
                count |-> Len(CountryData(df, present[i])),
                min |-> Min(vals),
                max |-> Max(vals)]]

\* The summary-statistics section: a subheader and a table per dataset.
RECURSIVE SummaryElems(_)
SummaryElems(k) ==
    IF k > Len(col_keys) THEN <<>>
    ELSE << <<"subheader", col_keys[k]>>, <<"dataframe", col_keys[k]>> >>
         \o SummaryElems(k + 1)

MergedRow(l, r) ==
    [name |-> l.name, code |-> l.code, year |-> l.year,
     iname_x |-> l.iname, icode_x |-> l.icode, x |-> l.value,
     iname_y |-> r.iname, icode_y |-> r.icode, y |-> r.value]

\* The join with on=["Year"] alone.
MergeRowOnYear(l, right) ==
    LET hits == SelectSeq(right, LAMBDA r : r.year = l.year)
    IN  [k \in 1..Len(hits) |-> MergedRow(l, hits[k])]

\* The join with how="left": a row of `left` without a partner is kept.
MergeRowLeft(l, right) ==
    LET hits == SelectSeq(right, LAMBDA r : /\ r.name = l.name
                                            /\ r.code = l.code
                                            /\ r.year = l.year)
    IN  IF hits = <<>>
        THEN << MergedRow(l, [iname |-> "NaN", icode |-> "NaN", value |-> NaN]) >>
        ELSE [k \in 1..Len(hits) |-> MergedRow(l, hits[k])]

\* The rows of `right` that pd.merge pairs with the row l of `left`:
\* on=["Country Name", "Country Code", "Year"]; a NaN key matches a NaN key.
MergeRow(l, right) ==
    LET hits == SelectSeq(right, LAMBDA r : /\ r.name = l.name
                                            /\ r.code = l.code
                                            /\ r.year = l.year)
    IN  [k \in 1..Len(hits) |-> MergedRow(l, hits[k])]

RECURSIVE MergeFrom(_, _, _)
MergeFrom(left, right, i) ==
    IF i > Len(left) THEN <<>>
    ELSE MergeRow(left[i], right) \o MergeFrom(left, right, i + 1)

\* pd.merge(left, right, on=[...], suffixes=...): how="inner".  The two value
\* columns keep their names (x, y here); the indicator columns get suffixes.
merge(left, right) == MergeFrom(left, right, 1)

\* scipy.stats.pearsonr(x, y): ValueError for fewer than two points.
pearsonr(n) == IF n < 2 THEN "ValueError" ELSE "ok"

\* The correlation section.
Correlation(filtered, x_dataset, y_dataset) ==
    LET head == << <<"subheader", "Correlation Between Two Datasets">>,
                   <<"selectbox", "corr_x">>, <<"selectbox", "corr_y">> >>
        merged == merge(filtered[x_dataset], filtered[y_dataset])
        figure == {"pd.merge", "plt.subplots:fig_corr", "ax_corr.scatter",
                   "np.polyfit", "np.poly1d", "ax_corr.plot", "pearsonr"}
    IN  IF x_dataset = y_dataset
        THEN [elems |-> Append(head,
                 <<"warning", "Please select two distinct datasets for correlation.">>),
              calls |-> {}, merged |-> <<>>, error |-> "none"]
        ELSE IF merged = <<>>
        THEN [elems |-> Append(head,
                 <<"write", "No overlapping data for the selected datasets.">>),
              calls |-> {"pd.merge"}, merged |-> merged, error |-> "none"]
        ELSE IF pearsonr(Len(merged)) # "ok"
        THEN [elems |-> Append(head, <<"exception", pearsonr(Len(merged))>>),
              calls |-> figure, merged |-> merged,
              error |-> pearsonr(Len(merged))]
        ELSE [elems |-> head \o
                 << <<"write", "Pearson's correlation coefficient">>,
                    <<"write", "P-value">>,
                    <<"pyplot", "fig_corr">> >>,
              calls |-> figure, merged |-> merged, error |-> "none"]

\* The sections a run did not reach.
NoTimeSeries == [elems |-> <<>>, calls |-> {}, lines |-> <<>>]

NoSummary == [elems |-> <<>>, calls |-> {}, stats |-> <<>>]

NoCorrelation == [elems |-> <<>>, calls |-> {}, merged |-> <<>>, error |-> "none"]

\* The page before the script has run.  Besides the page, the record keeps
\* the dict `filtered` of the run (empty when line 38 was not reached) and
\* the exception that ended the run, if any.
NoOutput ==
    [top |-> <<>>, filtered |-> <<>>, ts |-> NoTimeSeries,
     summary |-> NoSummary, corr |-> NoCorrelation, error |-> "none"]

Title == << <<"title", "World Bank Data Explorer">> >>

\* The sections with a conflict that ends the run: nothing below the
\* time-series warning is rendered.
SectionsStopOnConflict(datasets, w) ==
    LET filtered == [n \in Names |-> Filter(datasets[n], w.selected_countries)]
        corr == Correlation(filtered, w.corr_x, w.corr_y)
        ts == TimeSeries(filtered, w.selected_countries, w.ts_left, w.ts_right)
    IN  IF w.ts_left = w.ts_right
        THEN [NoOutput EXCEPT
                !.top = Append(Title, <<"multiselect", "Select countries:">>),
                !.filtered = filtered,
                !.ts = ts]
        ELSE [top |-> Append(Title, <<"multiselect", "Select countries:">>),
              filtered |-> filtered,
              ts |-> ts,
              summary |->
                 [elems |-> SummaryElems(1),
                  calls |-> {"describe"},
                  stats |-> [n \in Names |-> describe(filtered[n])]],
              corr |-> corr,
              error |-> corr.error]

\* The body of `if selected_countries:`: the three sections in turn.  An
\* exception in the correlation section ends the run after the sections
\* above it were rendered.
Sections(datasets, w) ==
    LET filtered == [n \in Names |-> Filter(datasets[n], w.selected_countries)]
        corr == Correlation(filtered, w.corr_x, w.corr_y)
    IN  [top |-> Append(Title, <<"multiselect", "Select countries:">>),
         filtered |-> filtered,
         ts |-> TimeSeries(filtered, w.selected_countries,
                           w.ts_left, w.ts_right),
         summary |->
            [elems |-> SummaryElems(1),
             calls |-> {"describe"},
             stats |-> [n \in Names |-> describe(filtered[n])]],
         corr |-> corr,
         error |-> corr.error]

\* main() without `if selected_countries:`.
mainWithoutGuard(datasets, w, first) ==
    IF first /\ ~(Range(DefaultCountries) \subseteq AvailableCountries(datasets))
    THEN [NoOutput EXCEPT
            !.top = Append(Title, <<"exception", "StreamlitAPIException">>),
            !.error = "StreamlitAPIException"]
    ELSE Sections(datasets, w)

\* One run of main() on the loaded datasets with the widget values w.
\* first: the multiselect is new in this session and takes its default,
\* which st.multiselect refuses when it is not among the options.
main(datasets, w, first) ==
    IF first /\ ~(Range(DefaultCountries) \subseteq AvailableCountries(datasets))
    THEN [NoOutput EXCEPT
            !.top = Append(Title, <<"exception", "StreamlitAPIException">>),
            !.error = "StreamlitAPIException"]
    ELSE IF w.selected_countries = <<>>
    THEN [NoOutput EXCEPT
            !.top = Append(Title, <<"multiselect", "Select countries:">>)]
    ELSE Sections(datasets, w)

\* Everything the page shows, top to bottom.
Elems(o) == o.top \o o.ts.elems \o o.summary.elems \o o.corr.elems

Rendered(o, kind, arg) == <<kind, arg>> \in Range(Elems(o))

---------------------------------------------------------------------------
(* The session: the files on disk, st.cache_data's cache, the widgets      *)

VARIABLES
    disk,       \* path -> the CSV file at that path
    cache,      \* st.cache_data: <<csv_path, value_name>> -> returned table
    parses,     \* path -> how often read_csv has parsed it
    datasets,   \* name -> what load_generic_data returned in the last run
    widgets,    \* the session's widget values
    out         \* the page the last run rendered

vars == <<disk, cache, parses, datasets, widgets, out>>

\* load_generic_data without @st.cache_data: the file is parsed on every call.
load_uncached(c, d, csv_path, value_name) ==
    [df |-> ParseCsv(d[csv_path]), parsed |-> TRUE]

\* @st.cache_data on load_generic_data(csv_path, value_name): the stored
\* table on a hit; on a miss the body runs on the file.
load_generic_data(c, d, csv_path, value_name) ==
    IF <<csv_path, value_name>> \in DOMAIN c
    THEN [df |-> c[<<csv_path, value_name>>], parsed |-> FALSE]
    ELSE [df |-> ParseCsv(d[csv_path]), parsed |-> TRUE]

\* A selectbox that a run does not render loses its value: it is back at
\* its index= default when it is rendered again.
WidgetsAfter(w, o) ==
    [k \in DOMAIN w |->
        IF k \in SelectboxKeys /\ ~Rendered(o, "selectbox", k)
        THEN DefaultSelectboxes[k]
        ELSE w[k]]

\* One script run with the widget values w: line 30 loads the three
\* datasets through the cache, the rest of main() renders the page.
ScriptRun(w) ==
    LET loads == [n \in Names |-> load_generic_data(cache, disk, files[n], n)]
    IN  /\ cache' = [k \in {<<files[n], n>> : n \in Names} |-> loads[k[2]].df]
        /\ parses' = [q \in Paths |->
                        parses[q] + Cardinality({n \in Names :
                                        files[n] = q /\ loads[n].parsed})]
        /\ datasets' = [n \in Names |-> loads[n].df]
        /\ out' = main(datasets', w,
                       ~Rendered(out, "multiselect", "Select countries:"))
        /\ widgets' = WidgetsAfter(w, out')
        /\ UNCHANGED disk

\* The browser opens the page: the first run.
Start ==
    /\ out = NoOutput
    /\ ScriptRun(widgets)

\* The user reruns the page without touching a widget.
Rerun ==
    /\ out # NoOutput
    /\ ScriptRun(widgets)

\* The user adds a country in the multiselect (it goes last).
SelectCountry(c) ==
    /\ Rendered(out, "multiselect", "Select countries:")
    /\ c \in AvailableCountries(datasets) \ Range(widgets.selected_countries)
    /\ ScriptRun([widgets EXCEPT !.selected_countries = Append(@, c)])

\* The user removes the i-th chosen country.
DeselectCountry(i) ==
    /\ Rendered(out, "multiselect", "Select countries:")
    /\ i \in 1..Len(widgets.selected_countries)
    /\ ScriptRun([widgets EXCEPT !.selected_countries =
                     SubSeq(@, 1, i - 1) \o SubSeq(@, i + 1, Len(@))])

\* The user picks another dataset in one of the four selectboxes.
SetSelectbox(k, d) ==
    /\ Rendered(out, "selectbox", k)
    /\ d # widgets[k]
    /\ ScriptRun([widgets EXCEPT ![k] = d])

\* Somebody replaces the file at a path while the session is open.
RewriteFile(k, filled) ==
    /\ disk[files[col_keys[k]]] # Csv(k, filled)
    /\ disk' = [disk EXCEPT ![files[col_keys[k]]] = Csv(k, filled)]
    /\ UNCHANGED <<cache, parses, datasets, widgets, out>>

YearCells(r) == {<<r, c>> : c \in 1..NumYears}

\* Four exports: data for both countries; for Sweden only; for Switzerland,
\* and a filled cell in Sweden's unnamed column; no data at all.
FixtureCells ==
    { YearCells(1) \cup YearCells(2),
      YearCells(1),
      {<<1, NumCols>>} \cup YearCells(2),
      {} }

\* Two of them, for the sessions in which files are replaced.
RewriteCells == { YearCells(1) \cup YearCells(2), YearCells(1) }

Disk(c1, c2, c3) ==
    (files[col_keys[1]] :> c1) @@ (files[col_keys[2]] :> c2)
    @@ (files[col_keys[3]] :> c3)

InitWidgets ==
    [selected_countries |-> DefaultCountries] @@ DefaultSelectboxes

InitSession ==
    /\ cache = <<>>
    /\ parses = [q \in Paths |-> 0]
    /\ datasets = <<>>
    /\ widgets = InitWidgets
    /\ out = NoOutput

\* Sessions in which every widget is used, on the four exports.
Init ==
    /\ \E f1 \in FixtureCells, f2 \in FixtureCells, f3 \in FixtureCells :
          disk = Disk(Csv(1, f1), Csv(2, f2), Csv(3, f3))
    /\ InitSession

Next ==
    \/ Start
    \/ Rerun
    \/ \E c \in Range(CountryNames) : SelectCountry(c)
    \/ \E i \in 1..Len(Countries) : DeselectCountry(i)
    \/ \E k \in SelectboxKeys, d \in Names : SetSelectbox(k, d)

Spec == Init /\ [][Next]_vars

\* Sessions on arbitrary files: the two datasets behind the default
\* selectboxes range over every CSV, the selectboxes are left alone.
InitData ==
    /\ \E c1 \in CsvSet(1), c2 \in CsvSet(2), f3 \in FixtureCells :
          disk = Disk(c1, c2, Csv(3, f3))
    /\ InitSession

NextData ==
    \/ Start
    \/ Rerun
    \/ \E c \in Range(CountryNames) : SelectCountry(c)
    \/ \E i \in 1..Len(Countries) : DeselectCountry(i)

SpecData == InitData /\ [][NextData]_vars

\* Sessions during which the files on disk are replaced.
InitCache ==
    /\ \E f1 \in RewriteCells, f2 \in RewriteCells, f3 \in RewriteCells :
          disk = Disk(Csv(1, f1), Csv(2, f2), Csv(3, f3))
    /\ InitSession

NextCache ==
    \/ Next
    \/ \E k \in 1..Len(col_keys), f \in RewriteCells : RewriteFile(k, f)

SpecCache == InitCache /\ [][NextCache]_vars

---------------------------------------------------------------------------
(* Properties                                                              *)

Selected == widgets.selected_countries

MultiselectShown == Rendered(out, "multiselect", "Select countries:")

TimeSeriesReached == out.ts.elems # <<>>

CorrelationReached == out.corr.elems # <<>>

NamesOf(df) == {df[i].name : i \in 1..Len(df)}

Count(df, row) == Cardinality({i \in 1..Len(df) : df[i] = row})

KeyOf(row) == <<row.name, row.code, row.year>>

KeysOf(df) == {KeyOf(df[i]) : i \in 1..Len(df)}

OnePerCodeAndYear(df) ==
    \A i, j \in 1..Len(df) :
        (df[i].code = df[j].code /\ df[i].year = df[j].year) => i = j

TimeSeriesWarning ==
    Rendered(out, "warning",
             "Please select two distinct datasets for the time series chart.")

CorrelationWarning ==
    Rendered(out, "warning", "Please select two distinct datasets for correlation.")

NoOverlapMessage ==
    Rendered(out, "write", "No overlapping data for the selected datasets.")

CorrelationReport ==
    /\ Rendered(out, "write", "Pearson's correlation coefficient")
    /\ Rendered(out, "write", "P-value")
    /\ Rendered(out, "pyplot", "fig_corr")
    /\ {"ax_corr.scatter", "np.polyfit", "ax_corr.plot", "pearsonr"}
          \subseteq out.corr.calls

\* C1 (as claimed): every row of every table load_generic_data returned has
\* a numeric Year and a non-missing value.
C1_LoadedRowsHaveNumericYear ==
    \A n \in DOMAIN datasets :
        \A i \in 1..Len(datasets[n]) :
            datasets[n][i].year # NaN /\ datasets[n][i].value # NaN

\* C2: for every dataset, the countries of the filtered table are those of
\* the selection that the dataset has; every row of a selected country is
\* kept as often as it occurs, and every filtered row is a row of the dataset.
C2_FilteredIsSelection ==
    \A n \in DOMAIN out.filtered :
        LET D == datasets[n]
            F == out.filtered[n]
            S == Range(Selected)
        IN  /\ NamesOf(F) \subseteq S
            /\ NamesOf(F) = S \cap NamesOf(D)
            /\ \A i \in 1..Len(D) :
                  Count(F, D[i]) = IF D[i].name \in S THEN Count(D, D[i]) ELSE 0
            /\ \A i \in 1..Len(F) : Count(D, F[i]) > 0

\* A selection that keeps part of a dataset and asks for a country another
\* dataset lacks.
C2_Witness ==
    \E n, m \in DOMAIN out.filtered :
        /\ out.filtered[n] # <<>>
        /\ Len(out.filtered[n]) < Len(datasets[n])
        /\ ~(Range(Selected) \subseteq NamesOf(datasets[m]))

\* C3: in both dual views, equal indicators give the warning and nothing of
\* the view (no figure, no line, no merge, no fit, no coefficient); distinct
\* indicators give no warning.
C3_SameIndicatorWarns ==
    /\ TimeSeriesReached =>
          IF widgets.ts_left = widgets.ts_right
          THEN /\ TimeSeriesWarning
               /\ out.ts.calls = {}
               /\ out.ts.lines = <<>>
               /\ ~Rendered(out, "pyplot", "fig")
          ELSE ~TimeSeriesWarning
    /\ CorrelationReached =>
          IF widgets.corr_x = widgets.corr_y
          THEN /\ CorrelationWarning
               /\ out.corr.calls = {}
               /\ out.corr.merged = <<>>
               /\ ~Rendered(out, "pyplot", "fig_corr")
               /\ ~NoOverlapMessage
               /\ ~Rendered(out, "write", "Pearson's correlation coefficient")
               /\ ~Rendered(out, "write", "P-value")
          ELSE ~CorrelationWarning

\* The time-series view warns while the correlation view, on distinct
\* datasets with rows, does its work.
C3_Witness ==
    /\ TimeSeriesReached
    /\ widgets.ts_left = widgets.ts_right
    /\ TimeSeriesWarning
    /\ widgets.corr_x # widgets.corr_y
    /\ out.corr.merged # <<>>

\* C4: with distinct X and Y whose filtered tables share no (Country Name,
\* Country Code, Year), the merged table is empty, the "No overlapping data"
\* message is written, nothing else of the view is computed and no exception
\* is raised.
C4_NoSharedKeyNoCorrelation ==
    ( /\ CorrelationReached
      /\ widgets.corr_x # widgets.corr_y
      /\ KeysOf(out.filtered[widgets.corr_x])
            \cap KeysOf(out.filtered[widgets.corr_y]) = {} )
    => /\ out.corr.merged = <<>>
       /\ NoOverlapMessage
       /\ out.corr.calls = {"pd.merge"}
       /\ ~Rendered(out, "pyplot", "fig_corr")
       /\ ~Rendered(out, "write", "Pearson's correlation coefficient")
       /\ ~Rendered(out, "write", "P-value")
       /\ out.error = "none"

\* Both filtered tables have rows, of the same country, and no key in common.
C4_Witness ==
    /\ CorrelationReached
    /\ widgets.corr_x # widgets.corr_y
    /\ NamesOf(out.filtered[widgets.corr_x])
          \cap NamesOf(out.filtered[widgets.corr_y]) # {}
    /\ KeysOf(out.filtered[widgets.corr_x])
          \cap KeysOf(out.filtered[widgets.corr_y]) = {}
    /\ NoOverlapMessage

\* C5 (as claimed): with distinct X and Y and a non-empty merged table the
\* view ends without an exception and reports the coefficient, the p-value
\* and the figure.
C5_NonEmptyMergeIsReported ==
    ( /\ CorrelationReached
      /\ widgets.corr_x # widgets.corr_y
      /\ out.corr.merged # <<>> )
    => /\ out.error = "none"
       /\ CorrelationReport

\* C6: the merged table is the inner join of the filtered X and Y tables on
\* (Country Name, Country Code, Year): its keys are the keys both tables
\* have, each of its rows carries a value X has and a value Y has under that
\* key, and it has one row per key when X and Y have one row per
\* (Country Code, Year).
C6_MergedIsInnerJoin ==
    "pd.merge" \in out.corr.calls =>
        LET X == out.filtered[widgets.corr_x]
            Y == out.filtered[widgets.corr_y]
            M == out.corr.merged
        IN  /\ KeysOf(M) = KeysOf(X) \cap KeysOf(Y)
            /\ \A i \in 1..Len(M) :
                  /\ \E a \in 1..Len(X) :
                        KeyOf(X[a]) = KeyOf(M[i]) /\ X[a].value = M[i].x
                  /\ \E b \in 1..Len(Y) :
                        KeyOf(Y[b]) = KeyOf(M[i]) /\ Y[b].value = M[i].y
            /\ (OnePerCodeAndYear(X) /\ OnePerCodeAndYear(Y)) =>
                  \A i, j \in 1..Len(M) : KeyOf(M[i]) = KeyOf(M[j]) => i = j

\* A join of two rows or more that drops a row of X and a row of Y.
C6_Witness ==
    /\ "pd.merge" \in out.corr.calls
    /\ Len(out.corr.merged) >= 2
    /\ Len(out.corr.merged) < Len(out.filtered[widgets.corr_x])
    /\ Len(out.corr.merged) < Len(out.filtered[widgets.corr_y])

\* C7: with an empty selection the run shows the title and the multiselect
\* and nothing else (no selectbox, chart, table, warning or message, no
\* library call, no exception); with a non-empty selection the three
\* sections are reached.
C7_EmptySelectionExitsEarly ==
    MultiselectShown =>
        IF Selected = <<>>
        THEN /\ Elems(out) = Append(Title, <<"multiselect", "Select countries:">>)
             /\ out.filtered = <<>>
             /\ out.ts.calls \cup out.summary.calls \cup out.corr.calls = {}
             /\ out.ts.lines = <<>>
             /\ out.summary.stats = <<>>
             /\ out.error = "none"
        ELSE /\ Rendered(out, "subheader", "Time Series Chart")
             /\ \A n \in Names :
                   Rendered(out, "subheader", n) /\ Rendered(out, "dataframe", n)
             /\ Rendered(out, "subheader", "Correlation Between Two Datasets")

\* The user has emptied the multiselect.
C7_Witness ==
    /\ MultiselectShown
    /\ Selected = <<>>
    /\ datasets # <<>>

DefaultState == MultiselectShown /\ widgets = InitWidgets

LinesOn(axis) == {i \in 1..Len(out.ts.lines) : out.ts.lines[i].axis = axis}

\* C8 (as claimed): in the default state the chart has two lines and the
\* summary statistics have two rows.
C8_TwoLinesTwoRows ==
    DefaultState =>
        /\ Len(out.ts.lines) = 2
        /\ \A n \in Names : Len(out.summary.stats[n]) = 2

\* C8 (amended): in the default state the chart has four lines, one per
\* selected country on each axis, and each of the three summary tables has
\* one row per selected country with data in that dataset.
C8_FourLinesRowsPerCountryWithData ==
    DefaultState =>
        /\ Len(out.ts.lines) = 4
        /\ \A c \in Range(DefaultCountries) :
              /\ \E i \in LinesOn("ax1") :
                    out.ts.lines[i].country = c
                    /\ out.ts.lines[i].dataset = col_keys[1]
              /\ \E i \in LinesOn("ax2") :
                    out.ts.lines[i].country = c
                    /\ out.ts.lines[i].dataset = col_keys[2]
        /\ Cardinality(LinesOn("ax1")) = 2
        /\ Cardinality(LinesOn("ax2")) = 2
        /\ DOMAIN out.summary.stats = Names
        /\ \A n \in Names :
              {out.summary.stats[n][i].country :
                  i \in 1..Len(out.summary.stats[n])}
                 = Range(DefaultCountries) \cap NamesOf(datasets[n])
              /\ Len(out.summary.stats[n])
                    = Cardinality(Range(DefaultCountries) \cap NamesOf(datasets[n]))

\* The default state on files of which one has data for both countries and
\* another for one of them.
C8_Witness ==
    /\ DefaultState
    /\ Len(out.ts.lines) = 4
    /\ \E n \in Names : Len(out.summary.stats[n]) = 2
    /\ \E n \in Names : Len(out.summary.stats[n]) = 1

SameSelection == widgets'.selected_countries = widgets.selected_countries

\* C9: with a non-empty selection every dataset gets its summary table; and
\* from one run to the next with the same selection, the summary tables are
\* the same, the correlation view is the same when X and Y are, and the
\* time-series view is the same when left and right are.
C9_ViewsAreIndependent ==
    /\ [](MultiselectShown /\ Selected # <<>> =>
             \A n \in Names :
                 /\ Rendered(out, "dataframe", n)
                 /\ n \in DOMAIN out.summary.stats)
    /\ [][(out # NoOutput /\ SameSelection) =>
             out'.summary = out.summary]_vars
    /\ [][(out # NoOutput /\ SameSelection
             /\ widgets'.corr_x = widgets.corr_x
             /\ widgets'.corr_y = widgets.corr_y) =>
             out'.corr = out.corr]_vars
    /\ [][(out # NoOutput /\ SameSelection
             /\ widgets'.ts_left = widgets.ts_left
             /\ widgets'.ts_right = widgets.ts_right) =>
             out'.ts = out.ts]_vars

\* The time-series view warns, the correlation view has raised, and the
\* summary tables are there.
C9_Witness ==
    /\ TimeSeriesWarning
    /\ out.error = "ValueError"
    /\ \A n \in Names : Rendered(out, "dataframe", n)

\* C10: a path is parsed at most once; what load_generic_data returned for a
\* dataset in one run it returns in every later run, and no step changes a
\* table the cache holds.
C10_LoadIsMemoized ==
    /\ [](\A q \in Paths : parses[q] <= 1)
    /\ [][\A n \in DOMAIN datasets : datasets'[n] = datasets[n]]_vars
    /\ [][\A k \in DOMAIN cache :
             k \in DOMAIN cache' /\ cache'[k] = cache[k]]_vars

\* The file of a loaded dataset has been replaced since it was parsed, and
\* the script has run again.
C10_Witness ==
    /\ out # NoOutput
    /\ \E n \in DOMAIN datasets :
          /\ ParseCsv(disk[files[n]]) # datasets[n]
          /\ datasets[n] = cache[<<files[n], n>>]
          /\ parses[files[n]] = 1

===========================================================================
